---- MODULE Spec2Model ----
(***************************************************************************)
(* The decentralized platform of soulfra-scripts/distributed-system.py:    *)
(* the main coroutine (main / DecentralizedPlatform.initialize), the       *)
(* monitor task (_start_monitoring / monitor_loop) that shares main's      *)
(* event loop, and the HTTP API thread (DecentralizedAPIHandler), which    *)
(* runs every platform operation to completion on an event loop of its own.*)
(*                                                                         *)
(* Tasks of one event loop switch only at an await; the API thread         *)
(* interleaves with them anywhere.  One action is the code a task runs     *)
(* from the completion of the call it awaits to its next await.            *)
(*                                                                         *)
(* UnifiedDatabaseLayer, DecentralizedSearchEngine and RuleEnforcementEngine*)
(* are imported (lines 27-36) from modules that are not among the sources; *)
(* their calls are modelled by their contracts, as outcomes chosen by the  *)
(* environment.                                                            *)
(***************************************************************************)
EXTENDS Integers, Sequences, FiniteSets, TLC

\* ---------------------------------------------------------------- bounds

\* Stores one health sweep may find offline, short of a total outage.
MaxOffline == 1
\* Violations one scan may return.
MaxViolations == 2
\* Ticks one monitor task runs.
MaxTicks == 2
\* HTTP requests the API thread receives.
MaxRequests == 2
\* Calls of initialize() by a caller other than main (SpecReinit only).
MaxReinit == 1
\* The largest absolute value hash() takes on a document id.
MaxHash == 2
\* Documents of the index that match the query of a search.
MaxDocs == 3
\* Shards that error or time out during one search.
MaxFailed == 1
\* The limit search gives its SearchQuery (50 at line 193), scaled to MaxDocs.
Limit == 2

\* ------------------------------------------------------------- constants

\* DecentralizedSearchEngine(num_shards=4), range(4), % 4.
NumShards == 4

\* ------------------------------------------------------------ data model

\* A store name: 'main', f'search_shard_{i}', 'monitoring'.
StoreName(kind, i) == [kind |-> kind, i |-> i]

\* The stores _setup_databases registers, in its order.
StoreOrder ==
    <<StoreName("main", 0)>>
        \o [k \in 1..NumShards |-> StoreName("search_shard", k - 1)]
        \o <<StoreName("monitoring", 0)>>

NumStores == Len(StoreOrder)

Stores == {StoreOrder[i] : i \in 1..NumStores}

Severities == {"info", "warning", "critical"}

\* A violation as far as the platform reads it: its severity, and whether it
\* carries a suggested fix.
Violation == [severity : Severities, fix : BOOLEAN]

\* The violations of vs that carry a fix.
Fixable(vs) == {v \in vs : v.fix}

\* The source tree as _index_codebase walks it: the *.py files, by whether a
\* skip marker ('__pycache__', 'venv', '.git') occurs in the path.
PyFiles == {"a.py", "venv/c.py"}
SkippedFiles == {"venv/c.py"}

VARIABLES
    mainPc,       \* where the main coroutine is
    initRet,      \* where the running initialize() returns to
    reinits,      \* calls of initialize() by a caller other than main
    running,      \* DecentralizedPlatform.running
    md,           \* DecentralizedPlatform.monitoring_data
    dbTick,       \* the sweep md.databases_online comes from (0: startup)
    registered,   \* the stores of db_layer
    rules,        \* the collections with a sharding rule
    indexed,      \* the document ids of search_engine
    mainLocal,    \* the main coroutine's locals
    initLog,      \* the steps of initialize() completed, in order
    mon,          \* the monitor tasks created
    api,          \* the API thread
    resp,         \* the last HTTP response
    served,       \* requests received
    comp,         \* the components' own state, for a call taken by itself
    op            \* the component call taken by itself

vars == <<mainPc, initRet, reinits, running, md, dbTick, registered, rules,
          indexed, mainLocal, initLog, mon, api, resp, served, comp, op>>

\* The variables of the platform and of its three threads of control.
platform ==
    <<mainPc, initRet, reinits, running, md, dbTick, registered, rules,
      indexed, mainLocal, initLog, mon, api, resp, served>>

\* The main coroutine's locals: the position of _setup_databases in its list
\* of stores, violations and critical_violations of _initial_rule_scan, the
\* counter value search has loaded, and the call whose exception ended main.
NoLocal ==
    [pos |-> 0, violations |-> {}, critical_violations |-> {}, tmp |-> 0,
     err |-> "none"]

Raised(call) == [NoLocal EXCEPT !.err = call]

\* The fields __init__ sets (start_time is set once and only read); 0 stands
\* for an absent search_stats / rule_report, which get_status reads as {}.
InitialMonitoringData ==
    [queries_processed |-> 0, violations_fixed |-> 0, databases_online |-> 0,
     search_stats |-> 0, rule_report |-> 0]

NoSnapshot ==
    [databases_online |-> 0, dbTick |-> 0, queries_processed |-> 0,
     violations_fixed |-> 0, search_stats |-> 0, rule_report |-> 0]

\* An HTTP response: its status code (0: none was sent), the error message,
\* from /status the snapshot and from /enforce the fix counts.
\* The keys of the dict auto_fix_violations returns.
FixKeys == {"fixed", "failed", "skipped"}

\* A dict of fix counts: its keys, and the value under each (0 when absent).
FixResults(keys, fixed, failed, skipped) ==
    [keys |-> keys, fixed |-> fixed, failed |-> failed, skipped |-> skipped]

NoFixResults == FixResults({}, 0, 0, 0)

\* enforce_rules, line 230: return {'fixed': 0, 'failed': 0}.
DefaultFixResults == FixResults({"fixed", "failed"}, 0, 0, 0)

Response(code, err, snap) ==
    [code |-> code, err |-> err, snap |-> snap, fix |-> NoFixResults]

NoResponse == Response(0, "none", NoSnapshot)

\* An HTTP request: method, path, and what the handler reads of it (the q
\* parameter, or the shape of the body).
Request(method, path, arg) == [method |-> method, path |-> path, arg |-> arg]

NoRequest == Request("none", "none", "none")

Requests ==
    {Request("GET", "/status", "none")}
        \cup {Request("GET", "/search", q) : q \in {"", "x"}}
        \cup {Request("POST", "/enforce", b) : b \in {"{}", "file_path", "not json"}}
        \cup {Request("POST", "/query", b) :
                  b \in {"", "sql", "query", "{}", "not json"}}
        \cup {Request("GET", "/enforce", "none"), Request("POST", "/status", "{}")}
        \cup {Request("PUT", "/status", "{}")}

\* The API thread: where it is (unstarted, idle, inside a platform operation,
\* dead), the request it handles and the operation's locals.
ApiThread(pc, req, violations, tmp) ==
    [pc |-> pc, req |-> req, violations |-> violations, tmp |-> tmp]

IdleApi == ApiThread("idle", NoRequest, {}, 0)

\* ------------------------------------------- the components' data model

\* The doc_id values a caller routes by, other than the empty string.
DocIds == {"a", "b"}

\* hash() of a str within one process: 0 for the empty string, and for the
\* others whatever the hash seed the process started with makes of them.
HashSeeds == [DocIds -> (0 - MaxHash)..MaxHash]

Hash(seed, s) == IF s = "" THEN 0 ELSE seed[s]

\* A params dict as far as the sharding rule reads it: whether it has the key
\* 'doc_id', and its value.
Params(has_doc_id, doc_id) == [has_doc_id |-> has_doc_id, doc_id |-> doc_id]

NoParams == Params(FALSE, "")

ParamsSet == {NoParams} \cup {Params(TRUE, d) : d \in DocIds \cup {""}}

\* params.get('doc_id', default).
Get(params, default) == IF params.has_doc_id THEN params.doc_id ELSE default

Collections == {"search_index", "users"}

\* What a resolve answers: a store name, or the error it fails with.
Routed(ok, store, err) == [ok |-> ok, store |-> store, err |-> err]

NoStore == StoreName("none", 0)

\* The routing key of a federated query: none, or a collection and params.
Routing(keyed, collection, params) ==
    [keyed |-> keyed, collection |-> collection, params |-> params]

NoRouting == Routing(FALSE, "none", NoParams)

RoutingKeys ==
    {NoRouting} \cup {Routing(TRUE, c, ps) : c \in Collections, ps \in ParamsSet}

\* A row a store returns, and the rows of each store, in the store's order.
Row(store, n) == [store |-> store, n |-> n]

RowsOf(store) ==
    IF store.kind = "main" THEN <<Row(store, 2), Row(store, 1)>>
    ELSE <<Row(store, 1)>>

\* What a federated query answers: the error it raised, the stores it
\* queried and the rows.
Answer(raised, queried, rows) ==
    [raised |-> raised, queried |-> queried, rows |-> rows]

\* One resolve remembered, with whether another call has run since.
Seen(set, collection, params, result, between) ==
    [set |-> set, collection |-> collection, params |-> params,
     result |-> result, between |-> between]

NotSeen == Seen(FALSE, "none", NoParams, Routed(FALSE, NoStore, "none"), FALSE)

\* The database layer of one process: its hash seed, its registry with the
\* online flags of the last sweep, its rules, and the resolve remembered.
Components(seed, reg, online, rls, seen) ==
    [seed |-> seed, registered |-> reg, online |-> online, rules |-> rls,
     seen |-> seen]

NoComponents == Components([d \in DocIds |-> 0], {}, {}, {}, NotSeen)

\* A call of the database layer: its name, its arguments and what it answered.
RouterCall(name, routing, routed, answer) ==
    [name |-> name, routing |-> routing, routed |-> routed, answer |-> answer]

NoCall ==
    RouterCall("none", NoRouting, Routed(FALSE, NoStore, "none"),
               Answer("none", {}, <<>>))

\* The platform as its constructor leaves it, lines 48-58.
InitPlatform ==
    /\ mainPc = "start"
    /\ initRet = "api_thread"
    /\ reinits = 0
    /\ running = FALSE
    /\ md = InitialMonitoringData
    /\ dbTick = 0
    /\ registered = {}
    /\ rules = {}
    /\ indexed = {}
    /\ mainLocal = NoLocal
    /\ initLog = <<>>
    /\ mon = <<>>
    /\ api = ApiThread("unstarted", NoRequest, {}, 0)
    /\ resp = NoResponse
    /\ served = 0

Init ==
    /\ InitPlatform
    /\ comp = NoComponents
    /\ op = NoCall

\* ------------------------------------------------- the components' calls

\* db_layer.add_database(name, config): the store is added (or replaced) by
\* name, or the call raises.
AddDatabaseOutcomes == {"ok", "raise"}

\* db_layer.health_check_all(): a name -> bool map with an entry for every
\* registered store, given here as the set of the stores mapped to true.
\* It never raises.
HealthOutcomes(reg) ==
    {on \in SUBSET reg : on = {} \/ Cardinality(reg \ on) <= MaxOffline}

\* len(health): the entries of the map counted, whatever their value.
DatabasesRegistered(health) == NumStores

\* sum(1 for h in health.values() if h), lines 107 and 171.
DatabasesOnline(health) == Cardinality(health)

\* search_engine.index_document / file_path.read_text for one file.
IndexFailures == SUBSET (PyFiles \ SkippedFiles)

\* rule_engine.scan_directory / scan_file: the violations found, of every
\* severity, as the caller flattens them.
ScanResults == {vs \in SUBSET Violation : Cardinality(vs) <= MaxViolations}

\* rule_engine.auto_fix_violations(vs): only a violation that carries a fix
\* is attempted; each attempt is fixed or failed, the others are skipped.
FixOutcomes(vs) ==
    {FixResults(FixKeys, f, Cardinality(Fixable(vs)) - f,
                Cardinality(vs \ Fixable(vs))) : f \in 0..Cardinality(Fixable(vs))}

\* A call that answers or raises: search_engine.search, search_engine.get_stats,
\* rule_engine.generate_report, db_layer.federated_search.
CallOutcomes == {"ok", "raise"}

\* --------------------------------------------------------- initialize()

\* The main coroutine is suspended in an await: the event loop may run
\* another task.
AwaitPcs == {"add_db", "health", "index", "scan", "fix", "example_search", "serve"}

InitPcs == {"add_db", "health", "index", "scan", "fix", "start_monitoring"}

\* initialize() with the index pass and the rule scan exchanged.
SwappedInitStep(pc) ==
    CASE pc = "add_db" -> "health"
      [] pc = "health" -> "scan"
      [] pc \in {"scan", "fix"} -> "index"
      [] pc = "index" -> "start_monitoring"

\* initialize, lines 64-74, and _setup_databases: what follows each step.
NextInitStep(pc) ==
    CASE pc = "add_db" -> "health"
      [] pc = "health" -> "index"
      [] pc = "index" -> "scan"
      [] pc \in {"scan", "fix"} -> "start_monitoring"

\* _setup_databases giving up when the sweep finds no store online.
AbortOnTotalOutage(databases_online) ==
    IF databases_online = 0 THEN "crashed" ELSE "index"

\* _setup_databases, lines 106-109: the count is stored and logged, whatever
\* it is, and _setup_databases returns.
AfterHealthSweep(databases_online) == NextInitStep("health")

\* main, lines 374-375: the platform is constructed and initialize() called.
main_construct ==
    /\ mainPc = "start"
    /\ mainPc' = "add_db"
    /\ UNCHANGED <<comp, op, initRet, reinits, running, md, dbTick, registered,
                   rules, indexed, mainLocal, initLog, mon, api, resp, served>>

\* _setup_databases, lines 82-103: one add_database call returns; after the
\* last one the sharding rule is added and the health sweep is called.
setup_add_database ==
    /\ mainPc = "add_db"
    /\ LET s == StoreOrder[mainLocal.pos + 1]
           last == mainLocal.pos + 1 = NumStores
       IN  \E outcome \in AddDatabaseOutcomes :
             /\ registered' = IF outcome = "ok" THEN registered \cup {s} ELSE registered
             /\ mainPc' = IF outcome = "raise" THEN "crashed"
                          ELSE IF last THEN NextInitStep("add_db") ELSE "add_db"
             /\ mainLocal' = IF outcome = "raise" THEN Raised("add_database")
                             ELSE IF last THEN NoLocal
                             ELSE [mainLocal EXCEPT !.pos = @ + 1]
             /\ rules' = IF outcome # "raise" /\ last
                         THEN rules \cup {"search_index"} ELSE rules
             /\ initLog' = IF outcome = "raise" THEN initLog
                           ELSE IF last
                           THEN initLog \o <<"add_database", "add_sharding_rule">>
                           ELSE Append(initLog, "add_database")
    /\ UNCHANGED <<comp, op, initRet, reinits, running, md, dbTick, indexed,
                   mon, api, resp, served>>

\* _setup_databases, lines 105-109: the first health sweep returns.
setup_health_check ==
    /\ mainPc = "health"
    /\ \E health \in HealthOutcomes(registered) :
         /\ md' = [md EXCEPT !.databases_online = DatabasesOnline(health)]
         /\ mainPc' = AfterHealthSweep(DatabasesOnline(health))
    /\ dbTick' = 0
    /\ initLog' = Append(initLog, "health_check_all")
    /\ UNCHANGED <<comp, op, initRet, reinits, running, registered, rules,
                   indexed, mainLocal, mon, api, resp, served>>

\* _index_codebase: every *.py file without a skip marker is read and indexed
\* under its path; a failure is caught for its file.
index_codebase ==
    /\ mainPc = "index"
    /\ \E failed \in IndexFailures :
         indexed' = indexed \cup ((PyFiles \ SkippedFiles) \ failed)
    /\ mainPc' = NextInitStep("index")
    /\ initLog' = Append(initLog, "index_codebase")
    /\ UNCHANGED <<comp, op, initRet, reinits, running, md, dbTick, registered,
                   rules, mainLocal, mon, api, resp, served>>

\* _initial_rule_scan without its severity filter.
AllViolations(vs) == vs

\* The violations _initial_rule_scan hands to auto_fix_violations.
CriticalViolations(vs) == {v \in vs : v.severity = "critical"}

\* _initial_rule_scan, lines 149-161: scan_directory returns; the critical
\* violations, if any, are handed to auto_fix_violations.
initial_rule_scan ==
    /\ mainPc = "scan"
    /\ \E vs \in ScanResults :
         LET critical_violations == CriticalViolations(vs)
         IN  IF critical_violations # {}
             THEN /\ mainPc' = "fix"
                  /\ mainLocal' = [mainLocal EXCEPT
                                      !.violations = vs,
                                      !.critical_violations = critical_violations]
                  /\ initLog' = initLog
             ELSE /\ mainPc' = NextInitStep("scan")
                  /\ mainLocal' = NoLocal
                  /\ initLog' = Append(initLog, "initial_rule_scan")
    /\ UNCHANGED <<comp, op, initRet, reinits, running, md, dbTick, registered,
                   rules, indexed, mon, api, resp, served>>

\* _initial_rule_scan, lines 161-163: auto_fix_violations returns.
initial_rule_fix ==
    /\ mainPc = "fix"
    /\ \E fix_results \in FixOutcomes(mainLocal.critical_violations) :
         md' = [md EXCEPT !.violations_fixed = fix_results.fixed]
    /\ mainPc' = NextInitStep("fix")
    /\ mainLocal' = NoLocal
    /\ initLog' = Append(initLog, "initial_rule_scan")
    /\ UNCHANGED <<comp, op, initRet, reinits, running, dbTick, registered,
                   rules, indexed, mon, api, resp, served>>

\* A monitor task as create_task leaves it.
NewTask == [pc |-> "created", tick |-> 0, raised |-> "none"]

\* _start_monitoring creating the task twice.
CreateTwoTasks(tasks) == tasks \o <<NewTask, NewTask>>

\* asyncio.create_task(monitor_loop()), line 186.
CreateMonitorTasks(tasks) == Append(tasks, NewTask)

\* _start_monitoring, lines 185-186, and the return of initialize().
start_monitoring ==
    /\ mainPc = "start_monitoring"
    /\ running' = TRUE
    /\ mon' = CreateMonitorTasks(mon)
    /\ mainPc' = initRet
    /\ initLog' = Append(initLog, "start_monitoring")
    /\ UNCHANGED <<comp, op, initRet, reinits, md, dbTick, registered, rules,
                   indexed, mainLocal, api, resp, served>>

\* ------------------------------------------------ the platform operations

\* get_status, lines 237-249: what it reads of monitoring_data, with the sweep
\* the store count comes from.
get_status ==
    [databases_online |-> md.databases_online, dbTick |-> dbTick,
     queries_processed |-> md.queries_processed,
     violations_fixed |-> md.violations_fixed,
     search_stats |-> md.search_stats, rule_report |-> md.rule_report]

\* search replacing monitoring_data by a fresh dict that keeps the counters.
CountQueryDroppingStats(loaded) ==
    [md EXCEPT !.queries_processed = loaded + 1, !.search_stats = 0]

\* search, line 197: monitoring_data['queries_processed'] += 1 stores the
\* value loaded before, plus one.
CountQuery(loaded) == [md EXCEPT !.queries_processed = loaded + 1]

\* enforce_rules, lines 217-218 and 226-228: what a returned auto-fix does to
\* monitoring_data, by whether a file_path was given.
CountFixed(file_path, fix_results) ==
    IF file_path THEN md
    ELSE [md EXCEPT !.violations_fixed = @ + fix_results.fixed]

\* ------------------------------------------------------------------ main

\* main, lines 377-379: the API server thread is started.
main_start_api ==
    /\ mainPc = "api_thread"
    /\ api' = IdleApi
    /\ mainPc' = "example_status"
    /\ UNCHANGED <<comp, op, initRet, reinits, running, md, dbTick, registered,
                   rules, indexed, mainLocal, initLog, mon, resp, served>>

\* main, lines 382-387: get_status is read and printed, then search is called.
main_status ==
    /\ mainPc = "example_status"
    /\ mainPc' = "example_search"
    /\ UNCHANGED <<comp, op, initRet, reinits, running, md, dbTick, registered,
                   rules, indexed, mainLocal, initLog, mon, api, resp, served>>

\* search called by main, lines 196-197: search_engine.search returns and the
\* counter is loaded, or it raises and main ends with the error.
main_search ==
    /\ mainPc = "example_search"
    /\ \E outcome \in CallOutcomes :
         IF outcome = "ok"
         THEN /\ mainPc' = "example_search_store"
              /\ mainLocal' = [mainLocal EXCEPT !.tmp = md.queries_processed]
         ELSE /\ mainPc' = "crashed"
              /\ mainLocal' = Raised("search")
    /\ UNCHANGED <<comp, op, initRet, reinits, running, md, dbTick, registered,
                   rules, indexed, initLog, mon, api, resp, served>>

\* search called by main, lines 197-210, then main, lines 388-400: the counter
\* is stored and main enters its sleep loop.
main_search_store ==
    /\ mainPc = "example_search_store"
    /\ md' = CountQuery(mainLocal.tmp)
    /\ mainLocal' = NoLocal
    /\ mainPc' = "serve"
    /\ UNCHANGED <<comp, op, initRet, reinits, running, dbTick, registered,
                   rules, indexed, initLog, mon, api, resp, served>>

\* main, lines 398-402: KeyboardInterrupt reaches the sleep loop.
main_interrupt ==
    /\ mainPc = "serve"
    /\ mainPc' = "except"
    /\ UNCHANGED <<comp, op, initRet, reinits, running, md, dbTick, registered,
                   rules, indexed, mainLocal, initLog, mon, api, resp, served>>

\* main, line 403: platform.running = False, and main returns.
main_shutdown ==
    /\ mainPc = "except"
    /\ running' = FALSE
    /\ mainPc' = "exit"
    /\ UNCHANGED <<comp, op, initRet, reinits, md, dbTick, registered, rules,
                   indexed, mainLocal, initLog, mon, api, resp, served>>

MonitorEnded == {"done", "failed", "cancelled"}

\* asyncio.run(main()), line 406, once main has returned or raised: the tasks
\* left on the loop are cancelled, and the process exit ends the daemon thread.
teardown ==
    /\ mainPc \in {"exit", "crashed"}
    /\ mainPc' = "terminated"
    /\ mon' = [t \in DOMAIN mon |->
                 IF mon[t].pc \in MonitorEnded THEN mon[t]
                 ELSE [mon[t] EXCEPT !.pc = "cancelled"]]
    /\ api' = IF api.pc = "unstarted" THEN api
              ELSE ApiThread("dead", NoRequest, {}, 0)
    /\ resp' = NoResponse
    /\ UNCHANGED <<comp, op, initRet, reinits, running, md, dbTick, registered,
                   rules, indexed, mainLocal, initLog, served>>

\* ------------------------------------------------------------ monitor_loop

\* An event loop that runs a task while main executes.
LoopAlwaysFree == TRUE

\* The event loop can run a monitor task: main is suspended in an await.
LoopFree == mainPc \in AwaitPcs

\* What monitor_loop does when a sub-check it awaits raises: nothing catches
\* it, and the task ends with the exception.
SubCheckRaised(task, check) == [task EXCEPT !.pc = "failed", !.raised = check]

\* monitor_loop, lines 168-170: the task runs for the first time.
monitor_start(t) ==
    /\ LoopFree
    /\ mon[t].pc = "created"
    /\ mon' = [mon EXCEPT ![t] =
                 IF running THEN [@ EXCEPT !.pc = "health", !.tick = 1]
                 ELSE [@ EXCEPT !.pc = "done"]]
    /\ UNCHANGED <<comp, op, mainPc, initRet, reinits, running, md, dbTick,
                   registered, rules, indexed, mainLocal, initLog, api, resp,
                   served>>

\* monitor_loop, lines 170-174: the health sweep returns, databases_online is
\* written and get_stats is called.
monitor_health(t) ==
    /\ LoopFree
    /\ mon[t].pc = "health"
    /\ \E health \in HealthOutcomes(registered) :
         md' = [md EXCEPT !.databases_online = DatabasesOnline(health)]
    /\ dbTick' = mon[t].tick
    /\ mon' = [mon EXCEPT ![t].pc = "stats"]
    /\ UNCHANGED <<comp, op, mainPc, initRet, reinits, running, registered,
                   rules, indexed, mainLocal, initLog, api, resp, served>>

\* monitor_loop, lines 174-178: get_stats returns, search_stats is written and
\* generate_report is called.
monitor_stats(t) ==
    /\ LoopFree
    /\ mon[t].pc = "stats"
    /\ \E outcome \in CallOutcomes :
         IF outcome = "ok"
         THEN /\ md' = [md EXCEPT !.search_stats = mon[t].tick]
              /\ mon' = [mon EXCEPT ![t].pc = "report"]
         ELSE /\ md' = md
              /\ mon' = [mon EXCEPT ![t] = SubCheckRaised(@, "stats")]
    /\ UNCHANGED <<comp, op, mainPc, initRet, reinits, running, dbTick,
                   registered, rules, indexed, mainLocal, initLog, api, resp,
                   served>>

\* monitor_loop, lines 178-182: generate_report returns, rule_report is
\* written and the task sleeps.
monitor_report(t) ==
    /\ LoopFree
    /\ mon[t].pc = "report"
    /\ \E outcome \in CallOutcomes :
         IF outcome = "ok"
         THEN /\ md' = [md EXCEPT !.rule_report = mon[t].tick]
              /\ mon' = [mon EXCEPT ![t].pc = "sleep"]
         ELSE /\ md' = md
              /\ mon' = [mon EXCEPT ![t] = SubCheckRaised(@, "report")]
    /\ UNCHANGED <<comp, op, mainPc, initRet, reinits, running, dbTick,
                   registered, rules, indexed, mainLocal, initLog, api, resp,
                   served>>

\* monitor_loop, lines 182 and 168-170: the sleep ends and the loop condition
\* is read again.
monitor_wake(t) ==
    /\ LoopFree
    /\ mon[t].pc = "sleep"
    /\ running => mon[t].tick < MaxTicks
    /\ mon' = [mon EXCEPT ![t] =
                 IF running THEN [@ EXCEPT !.pc = "health", !.tick = @ + 1]
                 ELSE [@ EXCEPT !.pc = "done"]]
    /\ UNCHANGED <<comp, op, mainPc, initRet, reinits, running, md, dbTick,
                   registered, rules, indexed, mainLocal, initLog, api, resp,
                   served>>

monitor_loop ==
    \E t \in DOMAIN mon :
        \/ monitor_start(t)
        \/ monitor_health(t)
        \/ monitor_stats(t)
        \/ monitor_report(t)
        \/ monitor_wake(t)

\* ------------------------------------------------ DecentralizedAPIHandler

\* The handler sends its one response (send_error, or send_response and
\* wfile.write), or ends with an exception nothing catches and sends none.
Respond(req, code, err, snap) ==
    /\ resp' = Response(code, err, snap)
    /\ api' = ApiThread("respond", req, {}, 0)

\* _handle_enforce, lines 315-318: the dict enforce_rules returned is sent
\* with 200.
RespondFix(req, fix_results) ==
    /\ resp' = [Response(200, "none", NoSnapshot) EXCEPT !.fix = fix_results]
    /\ api' = ApiThread("respond", req, {}, 0)

\* The handler calls a platform operation, which awaits a component.
Call(pc, req) ==
    /\ api' = ApiThread(pc, req, {}, 0)
    /\ resp' = resp

\* _handle_status, lines 276-284.
handle_status(req) == Respond(req, 200, "none", get_status)

\* _handle_search without its check of q.
handle_search_unchecked(req) == Call("search", req)

\* _handle_search, lines 286-296, up to search_engine.search.
handle_search(req) ==
    IF req.arg = "" THEN Respond(req, 400, "Missing query parameter", NoSnapshot)
    ELSE Call("search", req)

\* _handle_enforce, lines 303-313, up to the scan: json.loads raises on a body
\* that is not JSON, and an empty body reads as {}.
handle_enforce(req) ==
    IF req.arg = "not json" THEN Respond(req, 500, "json", NoSnapshot)
    ELSE Call("enforce_scan", req)

\* _handle_query, lines 323-338, up to federated_search: json.loads raises on an
\* empty body as on any text that is not JSON; only the 'sql' field is read.
handle_query(req) ==
    IF req.arg \in {"", "not json"} THEN Respond(req, 500, "json", NoSnapshot)
    ELSE IF req.arg # "sql" THEN Respond(req, 400, "Missing SQL query", NoSnapshot)
    ELSE Call("query", req)

\* A handler that looks at the path alone.
DispatchByPath(req) ==
    CASE req.path = "/status" -> handle_status(req)
      [] req.path = "/search" -> handle_search(req)
      [] req.path = "/enforce" -> handle_enforce(req)
      [] req.path = "/query" -> handle_query(req)
      [] OTHER -> Respond(req, 404, "Not Found", NoSnapshot)

\* do_GET, lines 254-263, and do_POST, lines 265-274; the handler class
\* (line 251) defines no other do_ method, and BaseHTTPRequestHandler
\* answers a method without one with 501.
Dispatch(req) ==
    CASE req.method = "GET" /\ req.path = "/status" -> handle_status(req)
      [] req.method = "GET" /\ req.path = "/search" -> handle_search(req)
      [] req.method = "POST" /\ req.path = "/enforce" -> handle_enforce(req)
      [] req.method = "POST" /\ req.path = "/query" -> handle_query(req)
      [] req.method \notin {"GET", "POST"} ->
             Respond(req, 501, "Unsupported method", NoSnapshot)
      [] OTHER -> Respond(req, 404, "Not Found", NoSnapshot)

\* serve_forever, line 354: the next request is received and handled up to
\* its response or to the first component call.
api_receive ==
    /\ api.pc = "idle"
    /\ served < MaxRequests
    /\ served' = served + 1
    /\ \E req \in Requests : Dispatch(req)
    /\ UNCHANGED <<comp, op, mainPc, initRet, reinits, running, md, dbTick,
                   registered, rules, indexed, mainLocal, initLog, mon>>

\* search, lines 196-197, called by _handle_search: search_engine.search
\* returns and the counter is loaded; if it raises, nothing in the handler
\* catches it and no response is sent.
api_search ==
    /\ api.pc = "search"
    /\ \E outcome \in CallOutcomes :
         IF outcome = "ok"
         THEN /\ api' = [api EXCEPT !.pc = "search_store", !.tmp = md.queries_processed]
              /\ resp' = resp
         ELSE Respond(api.req, 0, "search", NoSnapshot)
    /\ UNCHANGED <<comp, op, mainPc, initRet, reinits, running, md, dbTick,
                   registered, rules, indexed, mainLocal, initLog, mon, served>>

\* search, lines 197-210, and _handle_search, lines 298-301.
api_search_store ==
    /\ api.pc = "search_store"
    /\ md' = CountQuery(api.tmp)
    /\ Respond(api.req, 200, "none", NoSnapshot)
    /\ UNCHANGED <<comp, op, mainPc, initRet, reinits, running, dbTick,
                   registered, rules, indexed, mainLocal, initLog, mon, served>>

\* enforce_rules, lines 214-216 and 220-225: scan_file or scan_directory
\* returns, and without a violation the default outcome is returned; or it
\* raises and _handle_enforce, lines 320-321, answers 500.
api_enforce_scan ==
    /\ api.pc = "enforce_scan"
    /\ \/ \E vs \in ScanResults :
            IF vs # {}
            THEN /\ api' = [api EXCEPT !.pc = "enforce_fix", !.violations = vs]
                 /\ resp' = resp
            ELSE RespondFix(api.req, DefaultFixResults)
       \/ Respond(api.req, 500, "scan", NoSnapshot)
    /\ UNCHANGED <<comp, op, mainPc, initRet, reinits, running, md, dbTick,
                   registered, rules, indexed, mainLocal, initLog, mon, served>>

\* enforce_rules, lines 217-218 and 226-228, and _handle_enforce, lines
\* 315-321: auto_fix_violations returns, or raises and the handler answers 500.
api_enforce_fix ==
    /\ api.pc = "enforce_fix"
    /\ \/ \E fix_results \in FixOutcomes(api.violations) :
             /\ md' = CountFixed(api.req.arg = "file_path", fix_results)
             /\ RespondFix(api.req, fix_results)
       \/ /\ md' = md
          /\ Respond(api.req, 500, "auto_fix", NoSnapshot)
    /\ UNCHANGED <<comp, op, mainPc, initRet, reinits, running, dbTick,
                   registered, rules, indexed, mainLocal, initLog, mon, served>>

\* query_database, lines 232-235, and _handle_query, lines 340-346:
\* federated_search returns, or raises and the handler answers 500.
api_query ==
    /\ api.pc = "query"
    /\ \E outcome \in CallOutcomes :
         IF outcome = "ok" THEN Respond(api.req, 200, "none", NoSnapshot)
         ELSE Respond(api.req, 500, "federated_search", NoSnapshot)
    /\ UNCHANGED <<comp, op, mainPc, initRet, reinits, running, md, dbTick,
                   registered, rules, indexed, mainLocal, initLog, mon, served>>

\* The handler returns to serve_forever, line 354.
api_return ==
    /\ api.pc = "respond"
    /\ api' = IdleApi
    /\ resp' = NoResponse
    /\ UNCHANGED <<comp, op, mainPc, initRet, reinits, running, md, dbTick,
                   registered, rules, indexed, mainLocal, initLog, mon, served>>

ApiHandler ==
    \/ api_receive
    \/ api_return
    \/ api_search
    \/ api_search_store
    \/ api_enforce_scan
    \/ api_enforce_fix
    \/ api_query

Main ==
    \/ main_construct
    \/ setup_add_database
    \/ setup_health_check
    \/ index_codebase
    \/ initial_rule_scan
    \/ initial_rule_fix
    \/ start_monitoring
    \/ main_start_api
    \/ main_status
    \/ main_search
    \/ main_search_store
    \/ main_interrupt
    \/ main_shutdown
    \/ teardown

Next == Main \/ monitor_loop \/ ApiHandler

Spec == Init /\ [][Next]_vars

\* ------------------------------------------------- initialize() in isolation

\* The steps of initialize(): until it returns nothing else runs, the monitor
\* task and the API thread being started after them.
Initialize ==
    \/ main_construct
    \/ setup_add_database
    \/ setup_health_check
    \/ index_codebase
    \/ initial_rule_scan
    \/ initial_rule_fix
    \/ start_monitoring

\* Every call initialize() awaits returns or raises, so its next step is
\* taken.
SpecInit == Init /\ [][Initialize]_vars /\ WF_vars(Initialize)

\* ------------------------------------------- a caller other than main

\* initialize, lines 60-76, called on a platform that is Ready or Stopped:
\* nothing in it reads the state of the platform.
client_initialize ==
    /\ mainPc \in {"serve", "exit"}
    /\ reinits < MaxReinit
    /\ reinits' = reinits + 1
    /\ initRet' = mainPc
    /\ mainPc' = "add_db"
    /\ UNCHANGED <<comp, op, running, md, dbTick, registered, rules, indexed,
                   mainLocal, initLog, mon, api, resp, served>>

NextReinit == Main \/ monitor_loop \/ client_initialize

SpecReinit == Init /\ [][NextReinit]_vars

\* ------------------------------------------------------- the event loop

\* The main coroutine and the monitor task, the two tasks of the event loop.
NextLoop == Main \/ monitor_loop

\* Once KeyboardInterrupt is caught, main runs line 403 and returns, and
\* asyncio.run goes on to cancel what is left on the loop.
SpecLoop ==
    Init /\ [][NextLoop]_vars /\ WF_vars(main_shutdown) /\ WF_vars(teardown)

\* ------------------------------------------- the database layer by itself

\* A rule that places by the number of stores online.
LoadBalancedRule(seed, params) ==
    StoreName("search_shard", Cardinality(comp.online) % NumShards)

\* _setup_databases, lines 101-103: the rule of collection search_index,
\* lambda params: f"search_shard_{hash(params.get('doc_id', '')) % 4}".
ShardingRule(seed, params) ==
    StoreName("search_shard", Hash(seed, Get(params, "")) % NumShards)

\* Router resolve: the rule of the collection is evaluated; it fails without
\* a rule, and when the name the rule gives is not in the registry.
resolve(collection, params) ==
    IF collection \notin comp.rules THEN Routed(FALSE, NoStore, "NoRuleDefined")
    ELSE LET name == ShardingRule(comp.seed, params)
         IN  IF name \in comp.registered THEN Routed(TRUE, name, "none")
             ELSE Routed(FALSE, NoStore, "RoutingTargetUnknown")

RECURSIVE ConcatRows(_, _)
\* The rows of the stores of the set, concatenated in the registry's order
\* from position i on.
ConcatRows(i, stores) ==
    IF i > NumStores THEN <<>>
    ELSE (IF StoreOrder[i] \in stores THEN RowsOf(StoreOrder[i]) ELSE <<>>)
             \o ConcatRows(i + 1, stores)

\* db_layer.federated_search: with a routing key the one store the router
\* resolves is queried, without one every store that is online.
federated_search(sql, routing) ==
    IF routing.keyed
    THEN LET r == resolve(routing.collection, routing.params)
         IN  IF ~r.ok THEN Answer(r.err, {}, <<>>)
             ELSE IF r.store \notin comp.online THEN Answer("Timeout", {r.store}, <<>>)
             ELSE Answer("none", {r.store}, RowsOf(r.store))
    ELSE Answer("none", comp.online, ConcatRows(1, comp.online))

\* query_database calling federated_search without the params it was given.
query_database_unrouted(sql, params) == federated_search(sql, NoRouting)

\* query_database, lines 232-235: sql and params are handed to
\* federated_search and what it returns is returned.
query_database(sql, params) == federated_search(sql, params)

\* Another call has run since the resolve remembered.
Between == [comp.seen EXCEPT !.between = comp.seen.set]

\* One resolve of the router; it may be the one remembered.
router_resolve ==
    /\ \E c \in Collections, ps \in ParamsSet :
         LET r == resolve(c, ps)
             same == comp.seen.collection = c /\ comp.seen.params = ps
         IN  /\ op' = RouterCall("resolve", Routing(TRUE, c, ps), r,
                                 Answer("none", {}, <<>>))
             /\ \/ /\ ~comp.seen.set
                   /\ comp' = [comp EXCEPT !.seen = Seen(TRUE, c, ps, r, FALSE)]
                \/ comp' = [comp EXCEPT !.seen = IF same THEN @ ELSE Between]
    /\ UNCHANGED platform

\* health_check_all, lines 105-107 and 170-171: the online flags are set
\* as the probes answer, and the caller stores the count of the true ones.
router_health_check ==
    /\ \E health \in HealthOutcomes(comp.registered) :
         /\ comp' = [comp EXCEPT !.online = health, !.seen = Between]
         /\ md' = [md EXCEPT !.databases_online = DatabasesOnline(health)]
    /\ op' = RouterCall("health_check_all", NoRouting,
                        Routed(FALSE, NoStore, "none"),
                        Answer("none", comp.registered, <<>>))
    /\ UNCHANGED <<mainPc, initRet, reinits, running, dbTick, registered, rules,
                   indexed, mainLocal, initLog, mon, api, resp, served>>

\* query_database called with or without a routing key.
router_query ==
    /\ \E routing \in RoutingKeys :
         op' = RouterCall("query_database", routing,
                          Routed(FALSE, NoStore, "none"),
                          query_database("SELECT", routing))
    /\ comp' = [comp EXCEPT !.seen = Between]
    /\ UNCHANGED platform

\* The registries a database layer is set up with: main alone, or the
\* stores _setup_databases registers.
Registries == {{StoreName("main", 0)}, Stores}

\* A database layer after setup: its hash seed, its registry, the rule of
\* search_index, and the flags of the first sweep.
InitRouter ==
    /\ InitPlatform
    /\ comp \in {Components(seed, reg, on, {"search_index"}, NotSeen) :
                    seed \in HashSeeds, reg \in Registries,
                    on \in SUBSET Stores}
    /\ comp.online \in HealthOutcomes(comp.registered)
    /\ op = NoCall

NextRouter == router_resolve \/ router_health_check \/ router_query

SpecRouter == InitRouter /\ [][NextRouter]_vars

\* ------------------------------------------- the search engine by itself

Shards == 0..(NumShards - 1)

\* A matching document as its shard ranks it: id and score.
Doc(id) == [id |-> id, score |-> (id % 2) + 1]

DocsOf(shardOf, i) == {Doc(id) : id \in {d \in 1..MaxDocs : shardOf[d] = i}}

\* The merge order: score descending, id ascending.
Before(x, y) == x.score > y.score \/ (x.score = y.score /\ x.id < y.id)

\* A shard's answer: its matches, ranked by score descending.
ShardAnswers(docs) ==
    {ans \in [1..Cardinality(docs) -> docs] :
        /\ \A i, j \in DOMAIN ans : i < j => ans[i] # ans[j]
        /\ \A i, j \in DOMAIN ans : i < j => ans[i].score >= ans[j].score}

\* A ranked list with one more entry, at its place in the merge order.
Insert(merged, d) ==
    LET k == Cardinality({i \in DOMAIN merged : Before(merged[i], d)})
    IN  SubSeq(merged, 1, k) \o <<d>> \o SubSeq(merged, k + 1, Len(merged))

RECURSIVE MergeAnswer(_, _)
\* The answer of one shard merged into the list merged so far.
MergeAnswer(merged, ans) ==
    IF ans = <<>> THEN merged
    ELSE MergeAnswer(Insert(merged, Head(ans)), Tail(ans))

\* search_engine.search once every shard has answered or is excluded: the
\* merged list cut to the limit of the query.
Truncate(merged, limit) ==
    SubSeq(merged, 1, IF limit < Len(merged) THEN limit ELSE Len(merged))

\* search, lines 200-210, building its list from the last result on.
ToDictsReversed(results) ==
    [i \in DOMAIN results |->
        [id |-> results[Len(results) + 1 - i].id,
         score |-> results[Len(results) + 1 - i].score]]

\* search, lines 200-210: one dict for each result, in the order of results.
ToDicts(results) ==
    [i \in DOMAIN results |-> [id |-> results[i].id, score |-> results[i].score]]

\* A search that raises unless every shard has answered.
SearchAllOrNothing(results, failed) ==
    IF failed # {} THEN [raised |-> "PartialDegradation", list |-> <<>>]
    ELSE [raised |-> "none", list |-> ToDicts(results)]

\* search, lines 196-210: what it returns of the results search_engine.search
\* returned; it reads nothing of the shards.
SearchReturn(results, failed) == [raised |-> "none", list |-> ToDicts(results)]

\* A search: where it is, the shard of each document, the shards that fail,
\* those that have answered or are excluded, the list merged so far, and
\* what search returned.
SearchCall(pc, shardOf, failed, settled, merged, ret) ==
    [pc |-> pc, shardOf |-> shardOf, failed |-> failed, settled |-> settled,
     merged |-> merged, ret |-> ret]

NoReturn == [raised |-> "none", list |-> <<>>]

\* An index with its documents placed, before a search.
InitSearch ==
    /\ InitPlatform
    /\ comp = NoComponents
    /\ op \in {SearchCall("idle", shardOf, {}, {}, <<>>, NoReturn) :
                  shardOf \in [1..MaxDocs -> Shards]}

\* search, lines 190-196: search_engine.search is called with limit 50 and
\* sends the query to every shard; some of them will fail.
search_call ==
    /\ op.pc = "idle"
    /\ \E failed \in SUBSET Shards :
         /\ Cardinality(failed) <= MaxFailed
         /\ op' = [op EXCEPT !.pc = "fanout", !.failed = failed]
    /\ UNCHANGED <<platform, comp>>

\* A shard answers and its answer is merged.
shard_answer(i) ==
    /\ op.pc = "fanout"
    /\ i \notin op.failed \cup op.settled
    /\ \E ans \in ShardAnswers(DocsOf(op.shardOf, i)) :
         op' = [op EXCEPT !.settled = @ \cup {i},
                          !.merged = MergeAnswer(@, ans)]
    /\ UNCHANGED <<platform, comp>>

\* A shard errors or times out and is excluded from the merge.
shard_excluded(i) ==
    /\ op.pc = "fanout"
    /\ i \in op.failed \ op.settled
    /\ op' = [op EXCEPT !.settled = @ \cup {i}]
    /\ UNCHANGED <<platform, comp>>

\* search, lines 196-210, and _handle_search, lines 298-301:
\* search_engine.search returns, the query is counted and the list returned
\* is sent with 200.
search_return ==
    /\ op.pc = "fanout"
    /\ op.settled = Shards
    /\ op' = [op EXCEPT !.pc = "returned",
                        !.ret = SearchReturn(Truncate(op.merged, Limit), op.failed)]
    /\ md' = CountQuery(md.queries_processed)
    /\ resp' = IF op'.ret.raised = "none" THEN Response(200, "none", NoSnapshot)
               ELSE resp
    /\ UNCHANGED <<mainPc, initRet, reinits, running, dbTick, registered, rules,
                   indexed, mainLocal, initLog, mon, api, served, comp>>

NextSearch ==
    \/ search_call
    \/ \E i \in Shards : shard_answer(i) \/ shard_excluded(i)
    \/ search_return

SpecSearch == InitSearch /\ [][NextSearch]_vars

\* --------------------------------------------- the index pass by itself

\* The markers _index_codebase looks for in a path, line 117.
SkipMarkers == {"__pycache__", "venv", ".git"}

\* A *.py file of the tree: its path, and the markers that occur in the
\* path as substrings.
TreeFile(path, markers) == [path |-> path, markers |-> markers]

\* A source tree: three files without a marker, one under each directory
\* the markers name, and one under .github, in whose path '.git' occurs.
Tree ==
    {TreeFile("a.py", {}), TreeFile("b.py", {}), TreeFile("pkg/c.py", {}),
     TreeFile("__pycache__/d.py", {"__pycache__"}),
     TreeFile("venv/e.py", {"venv"}),
     TreeFile(".git/f.py", {".git"}),
     TreeFile(".github/g.py", {".git"})}

\* any(skip in str(file_path) for skip in [...]), line 117.
Skipped(file) == file.markers \cap SkipMarkers # {}

\* The pass: where it is, the files rglob has yet to give, what became of
\* each file given, and the doc_id of every index_document call so far.
IndexPass(pc, todo, status, calls) ==
    [pc |-> pc, todo |-> todo, status |-> status, calls |-> calls]

\* _index_codebase without its try/except: the exception ends the pass.
AfterFileUncaught(pass, file, outcome) ==
    IF Skipped(file)
    THEN [pass EXCEPT !.todo = @ \ {file}, !.status[file.path] = "skipped"]
    ELSE IF outcome = "read_raises"
    THEN [pass EXCEPT !.pc = "raised", !.status[file.path] = "failed"]
    ELSE IF outcome = "index_raises"
    THEN [pass EXCEPT !.pc = "raised", !.status[file.path] = "failed",
                      !.calls = Append(@, file.path)]
    ELSE [pass EXCEPT !.todo = @ \ {file}, !.status[file.path] = "indexed",
                      !.calls = Append(@, file.path)]

\* _index_codebase, lines 116-141, for one file rglob gives: it is skipped,
\* or read and handed to index_document under doc_id=str(file_path); an
\* exception of either is caught and the loop goes on.
AfterFile(pass, file, outcome) ==
    IF Skipped(file)
    THEN [pass EXCEPT !.todo = @ \ {file}, !.status[file.path] = "skipped"]
    ELSE IF outcome = "read_raises"
    THEN [pass EXCEPT !.todo = @ \ {file}, !.status[file.path] = "failed"]
    ELSE IF outcome = "index_raises"
    THEN [pass EXCEPT !.todo = @ \ {file}, !.status[file.path] = "failed",
                      !.calls = Append(@, file.path)]
    ELSE [pass EXCEPT !.todo = @ \ {file}, !.status[file.path] = "indexed",
                      !.calls = Append(@, file.path)]

\* file_path.read_text / stat and search_engine.index_document for one file.
FileOutcomes == {"ok", "read_raises", "index_raises"}

InitIndex ==
    /\ InitPlatform
    /\ comp = NoComponents
    /\ op = IndexPass("loop", Tree, [f \in {t.path : t \in Tree} |-> "pending"],
                      <<>>)

\* The loop of _index_codebase takes the next file.
index_file ==
    /\ op.pc = "loop"
    /\ \E file \in op.todo, outcome \in FileOutcomes :
         op' = AfterFile(op, file, outcome)
    /\ UNCHANGED <<platform, comp>>

\* _index_codebase, line 143: rglob is exhausted and the pass returns.
index_done ==
    /\ op.pc = "loop"
    /\ op.todo = {}
    /\ op' = [op EXCEPT !.pc = "done"]
    /\ UNCHANGED <<platform, comp>>

NextIndex == index_file \/ index_done

\* Every read and every index_document call returns or raises.
SpecIndex == InitIndex /\ [][NextIndex]_vars /\ WF_vars(NextIndex)

\* ------------------------------------------------------------- lifecycle

\* The lifecycle state of the platform, read off running and the place of
\* the main coroutine.
Lifecycle ==
    CASE mainPc = "start" -> "Uninitialized"
      [] mainPc \in InitPcs -> "Initializing"
      [] mainPc = "except" -> "ShuttingDown"
      [] running -> "Ready"
      [] mon = <<>> -> "Initializing"
      [] OTHER -> "Stopped"

LifecycleOrder ==
    <<"Uninitialized", "Initializing", "Ready", "ShuttingDown", "Stopped">>

Rank(state) == CHOOSE i \in DOMAIN LifecycleOrder : LifecycleOrder[i] = state

\* The steps of initialize() in the order the platform is to take them.
InitOrder ==
    [i \in 1..NumStores |-> "add_database"]
        \o <<"add_sharding_rule", "health_check_all", "index_codebase",
             "initial_rule_scan", "start_monitoring">>

IsPrefix(s, t) == Len(s) <= Len(t) /\ \A i \in DOMAIN s : s[i] = t[i]

\* The tasks inside a tick, and those created that have not run yet.
Executing == {t \in DOMAIN mon : mon[t].pc \in {"health", "stats", "report"}}
Pending == {t \in DOMAIN mon : mon[t].pc = "created"}

\* The API thread takes a step of the operation pc.
ApiStep(pc) == api.pc = pc /\ api' # api

\* The main coroutine takes its step at pc.
MainStep(pc) == mainPc = pc /\ mainPc' # pc

\* The request the API thread receives in this step.
Received(req) == api.pc = "idle" /\ served' = served + 1 /\ api'.req = req

\* Requests that invoke a platform operation.
OperationRequests ==
    {Request("GET", "/status", "none"), Request("GET", "/search", "x"),
     Request("POST", "/enforce", "{}"), Request("POST", "/enforce", "file_path"),
     Request("POST", "/query", "sql")}

\* ---------------------------------------------------------------- claims

\* C1: once the platform is Stopped, a request that invokes search,
\* enforce_rules, query_database or get_status is refused with
\* PlatformNotRunning in the same step, without a change of monitoring_data.
C1_StoppedOperationsFail ==
    [][\A req \in OperationRequests :
          Lifecycle = "Stopped" /\ Received(req) =>
              /\ api'.pc = "respond"
              /\ resp'.err = "PlatformNotRunning"
              /\ md' = md]_vars

\* C2: the lifecycle state only moves forward along Uninitialized,
\* Initializing, Ready, ShuttingDown, Stopped, one state at a time; a second
\* initialize() does not take a Ready or Stopped platform back.
C2_LifecycleForward ==
    [][Rank(Lifecycle') \in {Rank(Lifecycle), Rank(Lifecycle) + 1}]_vars

\* C3: initialize() takes its steps in the order register stores, register
\* the sharding rule, health sweep, index pass, rule scan, start monitoring;
\* the platform runs, a monitor task exists and the API thread serves only
\* once all of them are completed.
C3_InitOrder ==
    /\ IsPrefix(initLog, InitOrder)
    /\ (running \/ mon # <<>> \/ api.pc # "unstarted" \/ served > 0) =>
           initLog = InitOrder

C3_Witness ==
    /\ initLog = InitOrder
    /\ mon # <<>> /\ mon[1].tick >= 1
    /\ api.pc = "respond" /\ resp.code = 200

\* C4: a store whose registration fails during initialize() is excluded and
\* initialization goes on: main is not ended by the failure.
C4_RegistrationFailureTolerated ==
    mainLocal.err = "add_database" => mainPc \notin {"crashed", "terminated"}

\* The first health sweep has found no store online.
ZeroOnlineAtStartup ==
    /\ initLog # <<>> /\ initLog[Len(initLog)] = "health_check_all"
    /\ md.databases_online = 0

Ready == running /\ mainPc = initRet /\ initLog = InitOrder

C6_StartupFixesOnlyCritical ==
    mainPc = "fix" =>
        /\ mainLocal.critical_violations # {}
        /\ \A v \in mainLocal.critical_violations : v.severity = "critical"
        /\ mainLocal.critical_violations =
               {v \in mainLocal.violations : v.severity = "critical"}

C6_Witness ==
    /\ mainPc = "fix"
    /\ \E v \in mainLocal.violations : v.severity = "warning"
    /\ \E v \in mainLocal.critical_violations : TRUE

\* C7: at most one monitor tick executes at a time and no tick waits behind
\* one that executes.
C7_OneTickAtATime ==
    /\ Cardinality(Executing) <= 1
    /\ Cardinality(Executing \cup Pending) <= 1

C7_Witness == \E t \in Executing : mon[t].tick = 2

\* C8: a sub-check that raises inside a tick is caught: the task goes on
\* with the tick's other sub-checks and is not ended by it.
C8_SubCheckFailureIsolated ==
    \A t \in DOMAIN mon : mon[t].raised # "none" => mon[t].pc # "failed"

\* C9: the databases_online, search_stats and rule_report a /status
\* response carries come from one and the same completed tick.
C9_StatusFromOneTick ==
    (api.pc = "respond" /\ api.req.path = "/status" /\ resp.code = 200) =>
        /\ resp.snap.dbTick = resp.snap.search_stats
        /\ resp.snap.search_stats = resp.snap.rule_report

\* C10 as claimed: once the platform runs, monitoring_data changes only in
\* a step of the monitor task.
C10_OnlyMonitorWrites ==
    [][running /\ md' # md => mon' # mon]_vars

MonitorFields(data) ==
    <<data.databases_online, data.search_stats, data.rule_report>>

\* C10 as amended: once the platform runs, databases_online, search_stats
\* and rule_report change only in a step of the monitor task; a search
\* changes queries_processed alone, enforce_rules violations_fixed alone, and
\* query_database, get_status and the handlers no field.
C10_WritersByField ==
    [][running =>
          /\ MonitorFields(md') # MonitorFields(md) => mon' # mon
          /\ (ApiStep("search_store") \/ MainStep("example_search_store")) =>
                 md' = [md EXCEPT !.queries_processed = md'.queries_processed]
          /\ ApiStep("enforce_fix") =>
                 md' = [md EXCEPT !.violations_fixed = md'.violations_fixed]
          /\ (\E pc \in {"idle", "search", "enforce_scan", "query", "respond"} :
                 ApiStep(pc)) => md' = md]_vars

C10_Witness ==
    /\ running
    /\ api.pc = "respond" /\ api.req.path = "/search" /\ resp.code = 200
    /\ md.queries_processed = 2
    /\ md.search_stats = 1

\* The KeyboardInterrupt handler of main has been entered.
ShutdownRequested == mainPc \in {"except", "exit", "terminated"}

\* C11: once shutdown is requested no monitor task begins a tick, and
\* every monitor task eventually ends.
C11_ShutdownStopsMonitor ==
    /\ [][ShutdownRequested =>
             \A t \in DOMAIN mon : mon'[t].tick = mon[t].tick]_vars
    /\ ShutdownRequested ~> (\A t \in DOMAIN mon : mon[t].pc \in MonitorEnded)

C11_Witness ==
    /\ mainPc = "terminated" /\ ~running
    /\ mon # <<>> /\ mon[1].pc = "cancelled" /\ mon[1].tick = 2

EmptySearch == Request("GET", "/search", "")

\* C12: a GET /search whose q is absent or empty is answered 400 in the
\* step that receives it: search is not entered and monitoring_data,
\* queries_processed with it, is unchanged.
C12_EmptyQueryRejected ==
    [][Received(EmptySearch) =>
          /\ api'.pc = "respond"
          /\ resp' = Response(400, "Missing query parameter", NoSnapshot)
          /\ md' = md]_vars

C12_Witness ==
    /\ api.pc = "respond" /\ api.req = EmptySearch /\ resp.code = 400
    /\ md.queries_processed = 1

\* POST /query bodies that carry no query text: the empty body and a JSON
\* object without the field.
NoQueryText == {Request("POST", "/query", b) : b \in {"", "{}"}}

\* C13: a POST /query that carries no query text is answered 400 in the
\* step that receives it, and federated_search is not entered.
C13_MissingQueryIs400 ==
    [][\A req \in NoQueryText :
          Received(req) => api'.pc = "respond" /\ resp'.code = 400]_vars

\* C14: a POST /query whose body gives the text under "query" is handled as
\* one that gives it under "sql": the step that receives it enters
\* federated_search and sends no error.
C14_QueryFieldAccepted ==
    [][Received(Request("POST", "/query", "query")) =>
          api'.pc = "query" /\ resp'.code = 0]_vars

\* What a response carries as message when a platform operation raised.
OperationErrors == {"search", "scan", "auto_fix", "federated_search"}

\* C15: a handler that ends has sent one response; it is 500 when the
\* platform operation raised, and 200 only when it returned.
C15_OperationErrorIs500 ==
    api.pc = "respond" =>
        /\ resp.code \in {200, 400, 404, 500, 501}
        /\ resp.err \in OperationErrors => resp.code = 500
        /\ resp.code = 200 => resp.err = "none"

\* The rows of every store, in the registry's order.
AllRows == ConcatRows(1, Stores)

\* C16: a query with a routing key queries the one store the router
\* resolves for the key, and no store when the router fails; a query without
\* one queries the stores that are online and no other and returns their
\* rows, each store's as the store gave them, in the registry's order; with
\* main alone online these are main's rows.
C16_FederatedQuery ==
    op.name = "query_database" =>
        IF op.routing.keyed
        THEN LET r == resolve(op.routing.collection, op.routing.params)
             IN  /\ op.answer.queried = IF r.ok THEN {r.store} ELSE {}
                 /\ op.answer.raised = "none" => op.answer.rows = RowsOf(r.store)
        ELSE /\ op.answer.raised = "none"
             /\ op.answer.queried = comp.online
             /\ op.answer.rows =
                    SelectSeq(AllRows, LAMBDA row : row.store \in comp.online)
             /\ comp.online = {StoreName("main", 0)} =>
                    op.answer.rows = RowsOf(StoreName("main", 0))

C16_Witness ==
    /\ op.name = "query_database" /\ ~op.routing.keyed
    /\ comp.registered = Stores
    /\ StoreName("search_shard", 1) \notin comp.online
    /\ Len(op.answer.rows) = NumStores

\* C17: a resolve for search_index answers a store that is registered or
\* fails; for params without a doc_id it fails, rather than answer a store
\* by default.
C17_RuleFailsClosed ==
    (op.name = "resolve" /\ op.routing.collection = "search_index") =>
        /\ op.routed.ok => op.routed.store \in comp.registered
        /\ ~op.routing.params.has_doc_id => ~op.routed.ok

\* The resolve that has just answered is for the key of the one remembered.
ResolvedAgain ==
    /\ op.name = "resolve" /\ comp.seen.set
    /\ op.routing.collection = comp.seen.collection
    /\ op.routing.params = comp.seen.params

\* C18: a resolve answers what an earlier resolve for the same collection
\* and params answered, whatever calls ran between the two.
C18_RoutingDeterministic ==
    ResolvedAgain => op.routed = comp.seen.result

C18_Witness ==
    /\ ResolvedAgain /\ comp.seen.between
    /\ op.routed.ok /\ op.routing.params.doc_id = "a"
    /\ comp.online # comp.registered

\* The matches of the shards that answered.
Answered == UNION {DocsOf(op.shardOf, i) : i \in Shards \ op.failed}

RECURSIVE Ranked(_)
\* The documents of a set, the one that goes before all others first.
Ranked(docs) ==
    IF docs = {} THEN <<>>
    ELSE LET best == CHOOSE d \in docs : \A e \in docs \ {d} : Before(d, e)
         IN  <<best>> \o Ranked(docs \ {best})

\* C19: the list search returns has K = min(limit, matches) entries, and
\* its i-th entry is the i-th of the answering shards' matches ranked by
\* score descending, then id ascending, whatever the order of the answers.
C19_MergedTopK ==
    op.pc = "returned" =>
        LET list == op.ret.list
            K == IF Limit < Cardinality(Answered) THEN Limit
                 ELSE Cardinality(Answered)
        IN  /\ Len(list) = K
            /\ \A i \in 1..K :
                   /\ list[i].id = Ranked(Answered)[i].id
                   /\ list[i].score = Ranked(Answered)[i].score

C19_Witness ==
    /\ op.pc = "returned" /\ op.failed = {}
    /\ op.shardOf[1] = 3 /\ op.shardOf[2] = 0 /\ op.shardOf[3] = 1
    /\ Len(op.ret.list) = Limit
    /\ op.ret.list[1].id = 1 /\ op.ret.list[2].id = 3

\* C20: a search during which a shard fails does not raise: every entry of
\* the list it returns is a match of a shard that answered, no such match is
\* left out while the list is shorter than the limit, the query is counted
\* and the handler answers 200.
C20_PartialResult ==
    (op.pc = "returned" /\ op.failed # {}) =>
        /\ op.ret.raised = "none"
        /\ \A i \in DOMAIN op.ret.list :
               \E d \in Answered : d.id = op.ret.list[i].id
        /\ Len(op.ret.list) < Limit =>
               \A d \in Answered :
                   \E i \in DOMAIN op.ret.list : op.ret.list[i].id = d.id
        /\ md.queries_processed = 1
        /\ resp.code = 200

C20_Witness ==
    /\ op.pc = "returned" /\ op.failed = {2}
    /\ op.shardOf[1] = 2 /\ op.shardOf[2] = 0 /\ op.shardOf[3] = 1
    /\ Len(op.ret.list) = 2 /\ op.ret.list[1].id = 3
    /\ resp.code = 200

\* C21: a health sweep answers with an entry for every registered store and
\* the stores it finds online are registered ones; databases_online is the
\* number of stores the latest sweep found online, and always between 0 and
\* the number of registered stores.
C21_HealthSweepTotal ==
    /\ md.databases_online \in 0..Cardinality(comp.registered)
    /\ op.name = "health_check_all" =>
           /\ op.answer.raised = "none"
           /\ op.answer.queried = comp.registered
           /\ comp.online \subseteq comp.registered
           /\ md.databases_online = Cardinality(comp.online)

C21_Witness ==
    /\ op.name = "health_check_all"
    /\ comp.registered = Stores
    /\ comp.online = Stores \ {StoreName("monitoring", 0)}
    /\ md.databases_online = NumStores - 1

\* C22: violations_fixed never decreases, and an enforce_rules call that
\* returns the counts of an auto-fix, with or without a file_path, adds the
\* fixed count to it.
C22_ViolationsFixedCumulative ==
    [][/\ md'.violations_fixed >= md.violations_fixed
       /\ (ApiStep("enforce_fix") /\ resp'.code = 200) =>
              md'.violations_fixed = md.violations_fixed + resp'.fix.fixed]_vars

\* C25: enforce_rules returns a dict with the keys fixed, failed and
\* skipped; after an auto-fix its counts add up to the number of violations
\* handed over, and after a scan that found none they are all zero.
C25_FixOutcomeOnEveryPath ==
    [][((ApiStep("enforce_fix") \/ ApiStep("enforce_scan")) /\ resp'.code = 200) =>
          /\ resp'.fix.keys = FixKeys
          /\ resp'.fix.fixed + resp'.fix.failed + resp'.fix.skipped =
                 Cardinality(api.violations)]_vars

\* The routes of the API and, for each, where the handler is once it has
\* called the operation of the route.
Routes ==
    [method : {"GET"}, path : {"/status", "/search"}]
        \cup [method : {"POST"}, path : {"/enforce", "/query"}]

RouteOf(req) == [method |-> req.method, path |-> req.path]

OperationPc(req) ==
    CASE req.path = "/status" -> "respond"
      [] req.path = "/search" -> "search"
      [] req.path = "/enforce" -> "enforce_scan"
      [] req.path = "/query" -> "query"

\* Where an operation goes on to: its own next step or the response.
NextPcs(pc) ==
    CASE pc = "search" -> {"search_store", "respond"}
      [] pc = "enforce_scan" -> {"enforce_fix", "respond"}
      [] pc \in {"search_store", "enforce_fix", "query"} -> {"respond"}

\* A request of a route enters the operation of the route or is answered,
\* and an operation entered is never entered again for the request.
OneOperation ==
    /\ \A req \in Requests :
           (Received(req) /\ RouteOf(req) \in Routes) =>
               api'.pc \in {OperationPc(req), "respond"}
    /\ \A pc \in {"search", "search_store", "enforce_scan", "enforce_fix", "query"} :
           ApiStep(pc) =>
               \/ api'.pc = "dead"
               \/ api'.pc \in NextPcs(pc) /\ api'.req = api.req

\* C26 as claimed: a request triggers at most the one operation of its
\* route, once; a request of no route is answered 404 and triggers none.
C26_OneOperationOr404 ==
    [][/\ OneOperation
       /\ \A req \in Requests :
              (Received(req) /\ RouteOf(req) \notin Routes) =>
                  api'.pc = "respond" /\ resp'.code = 404]_vars

\* C26 as amended: a request triggers at most the one operation of its
\* route, once; a GET or POST request of no route is answered 404, a
\* request of another method 501, and neither triggers an operation.
C26_OneOperationOrRefused ==
    [][/\ OneOperation
       /\ \A req \in Requests :
              (Received(req) /\ RouteOf(req) \notin Routes) =>
                  /\ api'.pc = "respond"
                  /\ resp'.code = IF req.method \in {"GET", "POST"} THEN 404
                                  ELSE 501]_vars

C26_Witness ==
    /\ api.pc = "respond" /\ api.req = Request("PUT", "/status", "{}")
    /\ resp.code = 501 /\ served = 2

\* C27: every search that returns, from the API thread or from main, raises
\* queries_processed by one, and nothing else changes it.
C27_QueriesCountedExactly ==
    [][IF \/ ApiStep("search_store") /\ api'.pc = "respond"
          \/ MainStep("example_search_store")
       THEN md'.queries_processed = md.queries_processed + 1
       ELSE md'.queries_processed = md.queries_processed]_vars

\* The files of the tree without a marker in their path.
Eligible == {f \in Tree : ~Skipped(f)}

Line(kind, value) == [kind |-> kind, value |-> value]

Marker(p) == Line("progress", p)

ResultLine == Line("result", 1)

\* The exit code of a process that has not exited.
Running == 0 - 1

\* What the command line and the loaded module look like: whether --input
\* ends with '.zip', what find_main_function and the server test find, and
\* whether the service left a .zip in the output directory.
Args(is_zip, entry, has_zip) ==
    [is_zip |-> is_zip, entry |-> entry, has_zip |-> has_zip]

Entries == {"function", "server", "none"}

Worker(pc, args, out, code) ==
    [pc |-> pc, args |-> args, out |-> out, code |-> code]

NotSpawned(args) == Worker("unstarted", args, <<>>, Running)

Emit(w, line) == [w EXCEPT !.out = Append(@, line)]

Goto(w, pc) == [w EXCEPT !.pc = pc]

Exit(w, code) == [w EXCEPT !.pc = "exited", !.code = code]

\* main, lines 188-190: except Exception prints to stderr and exits 1.
Fail(w) == Exit(w, 1)

\* A SystemExit raised by the service is no Exception: it passes main's
\* handler and ends the interpreter with the code the service gave, here 0.
ServiceExits(w) == Exit(w, 0)

\* The worker's steps, each the set of records the step can leave.
\* main, lines 140-143: the first marker and mkdtemp.
WrapperStart(w) ==
    {Goto(Emit(w, Marker(10)), "extract"), Fail(Emit(w, Marker(10)))}

\* main, lines 145-154: a zip input is extracted, then the second marker.
WrapperExtract(w) ==
    {Goto(Emit(w, Marker(20)), "load")}
        \cup (IF w.args.is_zip THEN {Fail(w)} ELSE {})

\* main, lines 156-159: load_soulfra_module executes the script.
WrapperLoad(w) == {Goto(Emit(w, Marker(30)), "call"), Fail(w)}

Served(w) == Goto(Emit(w, Marker(80)), "package")

\* adapt_soulfra_service, lines 70-83: the entry point is looked up and
\* called as main_func(input_path, output_dir).
WrapperCall(w) ==
    CASE w.args.entry = "none" -> {Fail(w)}
      [] w.args.entry = "server" -> {Served(w), Fail(w)}
      [] OTHER -> {Served(w), Goto(w, "call_no_args"), Fail(w),
                   ServiceExits(w)}

\* adapt_soulfra_service, lines 84-89: main_func() under a bare except.
WrapperCallNoArgs(w) == {Served(w), Goto(w, "call_config")}

\* adapt_soulfra_service, lines 90-95: main_func(config).
WrapperCallConfig(w) == {Served(w), Fail(w), ServiceExits(w)}

\* main, lines 166-173: create_zip when the output directory has no .zip.
WrapperPackage(w) ==
    {Goto(Emit(w, Marker(90)), "result")}
        \cup (IF w.args.has_zip THEN {} ELSE {Fail(w)})

\* main, lines 175-186: the result line, the last marker, the clean-up.
WrapperResult(w) ==
    {Exit(Emit(Emit(w, ResultLine), Marker(100)), 0), Fail(w)}

Templates == {"service", "simple"}

\* One updateProgress call: who asked for it, the worker marker it maps (or
\* Running for the adapter's own calls) and the value in thousandths.
Report(by, p, v) == [by |-> by, p |-> p, v |-> v]

Own(percent) == Report("adapter", Running, 1000 * percent)

\* The adapter's mapping of a worker marker.  SERVICE_ADAPTER_TEMPLATE hands
\* parseInt(m) / 100 to a callback that reports 20 + progress * 0.6; the
\* simple template reports 20 + parseInt(m) * 0.6.
MapProgress(template, p) ==
    IF template = "service" THEN 20000 + (6 * p) ELSE 20000 + (600 * p)

Job(template, pc, call, statuses, reported, read, w) ==
    [template |-> template, pc |-> pc, call |-> call, statuses |-> statuses,
     reported |-> reported, read |-> read, w |-> w]

Throw(job) == [job EXCEPT !.pc = "threw", !.call = "threw"]

ReportOwn(job, percent) ==
    [job EXCEPT !.reported = Append(@, Own(percent))]

\* The stdout 'data' handler: the first marker of the chunk is reported.
OnData(job, chunk) ==
    LET marks == SelectSeq(chunk, LAMBDA l : l.kind = "progress")
    IN [job EXCEPT
          !.read = @ + Len(chunk),
          !.reported =
              IF marks = <<>> THEN @
              ELSE Append(@, Report("worker", marks[1].value,
                                    MapProgress(job.template,
                                                marks[1].value)))]

\* A close handler that resolves whatever the exit code was.
OnCloseIgnoringCode(job, code) ==
    [ReportOwn(job, 80) EXCEPT !.pc = "package"]

\* The 'close' handler: a non-zero code rejects, and the awaiting adapter
\* throws; code 0 resolves and the adapter reports 80.
OnClose(job, code) ==
    IF code # 0 THEN Throw(job)
    ELSE [ReportOwn(job, 80) EXCEPT !.pc = "package"]

\* What the adapter reports between the upload and its return.
Finished(job) ==
    LET last == IF job.template = "service" THEN ReportOwn(job, 95) ELSE job
    IN [ReportOwn(last, 100) EXCEPT !.pc = "returned", !.call = "returned"]

InitJob ==
    /\ InitPlatform
    /\ comp = NoComponents
    /\ \E template \in Templates, entry \in Entries, has_zip \in BOOLEAN :
         op = Job(template, "queued", "pending", <<>>, <<>>, 0,
                  NotSpawned(Args(TRUE, entry, has_zip)))

\* The queue hands the job to the processor, which writes PROCESSING and
\* calls the adapter; the adapter reports 5.
job_pick ==
    /\ op.pc = "queued"
    /\ op' = [ReportOwn(op, 5) EXCEPT !.pc = "lookup",
                                      !.statuses = Append(@, "PROCESSING")]
    /\ UNCHANGED <<platform, comp>>

\* prisma.job.findUnique: a missing job throws ProcessingError.
adapter_lookup ==
    /\ op.pc = "lookup"
    /\ \/ op' = [(IF op.template = "service" THEN ReportOwn(op, 10) ELSE op)
                    EXCEPT !.pc = "download"]
       \/ op' = Throw(op)
    /\ UNCHANGED <<platform, comp>>

\* The input is downloaded and written, 20 is reported, the worker spawned.
adapter_download ==
    /\ op.pc = "download"
    /\ \/ op' = [ReportOwn(op, 20) EXCEPT !.pc = "waiting",
                                          !.w = Goto(op.w, "start")]
       \/ op' = Throw(op)
    /\ UNCHANGED <<platform, comp>>

\* A chunk of the worker's output arrives: some of the lines not yet read.
adapter_data ==
    /\ op.pc = "waiting"
    /\ \E k \in (op.read + 1)..Len(op.w.out) :
         op' = OnData(op, SubSeq(op.w.out, op.read + 1, k))
    /\ UNCHANGED <<platform, comp>>

\* The worker has exited and its output has been read.
adapter_close ==
    /\ op.pc = "waiting"
    /\ op.w.pc = "exited"
    /\ op.read = Len(op.w.out)
    /\ op' = OnClose(op, op.w.code)
    /\ UNCHANGED <<platform, comp>>

\* Packaging, upload and clean-up; any of them can throw.
adapter_package ==
    /\ op.pc = "package"
    /\ \/ op' = Finished(op)
       \/ op' = Throw(op)
    /\ UNCHANGED <<platform, comp>>

\* The processor's try block after the adapter returned.
processor_complete ==
    /\ op.pc = "returned"
    /\ op' = [op EXCEPT !.pc = "done", !.statuses = Append(@, "COMPLETED")]
    /\ UNCHANGED <<platform, comp>>

\* The processor's catch block, which rethrows.
processor_fail ==
    /\ op.pc = "threw"
    /\ op' = [op EXCEPT !.pc = "done", !.statuses = Append(@, "FAILED")]
    /\ UNCHANGED <<platform, comp>>

WorkerStep(pc, next) ==
    /\ op.w.pc = pc
    /\ op' = [op EXCEPT !.w = next]
    /\ UNCHANGED <<platform, comp>>

wrapper_start == \E n \in WrapperStart(op.w) : WorkerStep("start", n)

wrapper_extract == \E n \in WrapperExtract(op.w) : WorkerStep("extract", n)

wrapper_load == \E n \in WrapperLoad(op.w) : WorkerStep("load", n)

wrapper_call == \E n \in WrapperCall(op.w) : WorkerStep("call", n)

wrapper_call_no_args ==
    \E n \in WrapperCallNoArgs(op.w) : WorkerStep("call_no_args", n)

wrapper_call_config ==
    \E n \in WrapperCallConfig(op.w) : WorkerStep("call_config", n)

wrapper_package == \E n \in WrapperPackage(op.w) : WorkerStep("package", n)

wrapper_result == \E n \in WrapperResult(op.w) : WorkerStep("result", n)

WrapperMain ==
    \/ wrapper_start
    \/ wrapper_extract
    \/ wrapper_load
    \/ wrapper_call
    \/ wrapper_call_no_args
    \/ wrapper_call_config
    \/ wrapper_package
    \/ wrapper_result

NextJob ==
    \/ job_pick
    \/ adapter_lookup
    \/ adapter_download
    \/ adapter_data
    \/ adapter_close
    \/ adapter_package
    \/ processor_complete
    \/ processor_fail
    \/ WrapperMain

\* The worker's steps and the adapter's handlers are all eventually run.
SpecJob == InitJob /\ [][NextJob]_vars /\ WF_vars(NextJob)

\* The wrapper run from the command line, on any input.
InitWrapper ==
    /\ InitPlatform
    /\ comp = NoComponents
    /\ \E is_zip \in BOOLEAN, entry \in Entries, has_zip \in BOOLEAN :
         op = Job("simple", "standalone", "pending", <<>>, <<>>, 0,
                  Worker("start", Args(is_zip, entry, has_zip), <<>>,
                         Running))

SpecWrapper == InitWrapper /\ [][WrapperMain]_vars /\ WF_vars(WrapperMain)

Markers(w) == SelectSeq(w.out, LAMBDA l : l.kind = "progress")

Results(w) == SelectSeq(w.out, LAMBDA l : l.kind = "result")

StrictlyIncreasing(lines) ==
    \A i \in 1..(Len(lines) - 1) : lines[i].value < lines[i + 1].value

\* C23: a run of the worker wrapper that exits with code 0 has emitted its
\* progress markers in strictly increasing order and exactly one JSON result
\* line with success = true; a run that exits with a non-zero code has
\* emitted no JSON result line.
C23_WrapperOutputProtocol ==
    op.w.pc = "exited" =>
        /\ op.w.code = 0 =>
              /\ StrictlyIncreasing(Markers(op.w))
              /\ Results(op.w) = <<ResultLine>>
        /\ op.w.code # 0 => Results(op.w) = <<>>

NeverDecreases(reported) ==
    \A i \in 1..(Len(reported) - 1) : reported[i].v <= reported[i + 1].v

\* C28: in both adapter templates a worker marker p in 0..100 is reported as
\* a job progress between 20 and 80, with p = 0 reported as 20 and p = 100
\* as 80, and the progress reported for one job never decreases.
C28_ProgressMappedInto20To80 ==
    /\ \A i \in DOMAIN op.reported :
          op.reported[i].by = "worker" =>
              /\ op.reported[i].v \in 20000..80000
              /\ op.reported[i].p = 0 => op.reported[i].v = 20000
              /\ op.reported[i].p = 100 => op.reported[i].v = 80000
    /\ NeverDecreases(op.reported)

Terminal == {"COMPLETED", "FAILED"}

MaxIdea == 3

MaxText == 3

TitleLen == 2

\* A text is a sequence of tokens: the two braces, one complete member of a
\* JSON object and anything else.
Tokens == {"{", "}", "m", "x"}

Texts == UNION {[1..n -> Tokens] : n \in 0..MaxText}

Ideas == {[i \in 1..n |-> "x"] : n \in 0..MaxIdea}

\* What requests.post meets: a transport error, or a status code and a body
\* that is a JSON document with a 'response' text or is not JSON at all.
Reply(transport, status, body, response) ==
    [transport |-> transport, status |-> status, body |-> body,
     response |-> response]

Replies ==
    {Reply(t, st, b, r) : t \in {"ok", "error"}, st \in {200, 500},
                          b \in {"json", "not json"}, r \in Texts}

Analysis(kind, title, description, members) ==
    [kind |-> kind, title |-> title, description |-> description,
     members |-> members]

\* lines 216-224: the fallback record, whose title is idea_text[:50].
FallbackRecord(idea_text) ==
    Analysis("fallback",
             SubSeq(idea_text, 1, IF Len(idea_text) < TitleLen
                                  THEN Len(idea_text) ELSE TitleLen),
             idea_text, 0)

Parsed(members) == Analysis("parsed", <<>>, <<>>, members)

Raises == Analysis("raised", <<>>, <<>>, 0)

\* str.find and str.rfind, with Python's indices: -1 when absent.
Find(text, token) ==
    IF \E i \in DOMAIN text : text[i] = token
    THEN (CHOOSE i \in DOMAIN text :
              /\ text[i] = token
              /\ \A j \in 1..(i - 1) : text[j] # token) - 1
    ELSE 0 - 1

RFind(text, token) ==
    IF \E i \in DOMAIN text : text[i] = token
    THEN (CHOOSE i \in DOMAIN text :
              /\ text[i] = token
              /\ \A j \in (i + 1)..Len(text) : text[j] # token) - 1
    ELSE 0 - 1

\* json.loads accepts an object with no member or with one.
WellFormed(text) == text \in {<<"{", "}">>, <<"{", "m", "}">>}

\* The slice result[json_start:json_end].
Slice(text, start, end) == SubSeq(text, start + 1, end)

\* Lines 205-211 without the inner try: a failing json.loads propagates.
ParseUnguarded(idea_text, result) ==
    LET json_start == Find(result, "{")
        json_end == RFind(result, "}") + 1
    IN IF json_start >= 0 /\ json_end > json_start
       THEN IF WellFormed(Slice(result, json_start, json_end))
            THEN Parsed(json_end - json_start - 2)
            ELSE Raises
       ELSE FallbackRecord(idea_text)

\* Lines 203-211: the first '{' and the last '}' bound the text handed to
\* json.loads; the bare except passes and the function falls to line 216.
Parse(idea_text, result) ==
    LET json_start == Find(result, "{")
        json_end == RFind(result, "}") + 1
    IN IF json_start >= 0 /\ json_end > json_start
          /\ WellFormed(Slice(result, json_start, json_end))
       THEN Parsed(json_end - json_start - 2)
       ELSE FallbackRecord(idea_text)

analyze_idea_with_ollama(idea_text, reply) ==
    IF reply.transport = "error" \/ reply.status # 200
       \/ reply.body = "not json"
    THEN FallbackRecord(idea_text)
    ELSE Parse(idea_text, reply.response)

Analyze(pc, idea_text, reply, ret) ==
    [pc |-> pc, idea_text |-> idea_text, reply |-> reply, ret |-> ret]

InitAnalyze ==
    /\ InitPlatform
    /\ comp = NoComponents
    /\ \E idea_text \in Ideas, reply \in Replies :
         op = Analyze("call", idea_text, reply, Raises)

analyze_call ==
    /\ op.pc = "call"
    /\ op' = [op EXCEPT !.pc = "returned",
                        !.ret = analyze_idea_with_ollama(op.idea_text,
                                                         op.reply)]
    /\ UNCHANGED <<platform, comp>>

NextAnalyze == analyze_call

SpecAnalyze == InitAnalyze /\ [][NextAnalyze]_vars

\* A reply from which no well-formed object can be taken.
Unusable(reply) ==
    \/ reply.transport = "error"
    \/ reply.status # 200
    \/ reply.body = "not json"
    \/ \A i \in DOMAIN reply.response : reply.response[i] # "{"
    \/ \A i, j \in DOMAIN reply.response :
          (reply.response[i] = "{" /\ reply.response[j] = "}") =>
              ~WellFormed(SubSeq(reply.response, i, j))

\* C24: analyze_idea_with_ollama never raises; for a transport error, a
\* non-200 status, a response with no JSON object or with a malformed one it
\* returns the fallback record built from the idea text, and it returns
\* parsed JSON only when a well-formed object was found.
C24_FallbackUnlessWellFormed ==
    op.pc = "returned" =>
        /\ op.ret.kind \in {"parsed", "fallback"}
        /\ Unusable(op.reply) => op.ret = FallbackRecord(op.idea_text)
        /\ op.ret.kind = "parsed" =>
              /\ op.reply.transport = "ok"
              /\ op.reply.status = 200
              /\ \E i, j \in DOMAIN op.reply.response :
                    WellFormed(SubSeq(op.reply.response, i, j))

\* A status-200 reply whose text holds braces around a malformed object was
\* answered with the fallback record, title cut to TitleLen.
C24_Witness ==
    /\ op.pc = "returned"
    /\ op.reply = Reply("ok", 200, "json", <<"{", "x", "}">>)
    /\ op.idea_text = <<"x", "x", "x">>
    /\ op.ret = Analysis("fallback", <<"x", "x">>, <<"x", "x", "x">>, 0)

====
